---- MODULE Spec2Model ----
(***************************************************************************)
(* Model of src/app.py: the Streamlit script of the HungerBox food safety  *)
(* analyzer.  One run of main() is a sequence of steps (form, preview,     *)
(* validation, encoding, API call, JSON parse, timestamp, rendering, and   *)
(* the except handler); the page shown to the user is the sequence `out`   *)
(* of rendered elements.  Emoji of the source strings are left out of the  *)
(* texts; everything else is kept.                                         *)
(***************************************************************************)
EXTENDS Integers, Sequences, FiniteSets, TLC

VARIABLES
    pc,              \* position of the script run
    api_key,         \* st.text_input("OpenAI API Key")
    cafeteria_name,  \* st.text_input("Cafeteria Name")
    question,        \* st.text_area("Assessment Question")
    uploaded_image,  \* st.file_uploader(...): kind of the uploaded file
    submitted,       \* st.form_submit_button(...)
    image,           \* the local `image` (PIL object) of main()
    response,        \* response.choices[0].message.content
    result,          \* json.loads(...) of the response
    analysis_date,   \* strftime of datetime.now()
    exc,             \* the exception caught by `except Exception as e`
    out,             \* elements rendered on the page in this run
    calls,           \* client.chat.completions.create invocations in this run
    trace,           \* steps of the submission performed in this run
    prevFailed       \* the previous run ended in the except handler

vars == <<pc, api_key, cafeteria_name, question, uploaded_image, submitted,
          image, response, result, analysis_date, exc, out, calls, trace,
          prevFailed>>

\* Number of distinct clock readings datetime.now() may return.
MaxTime == 2

-----------------------------------------------------------------------------
(* Python / JSON values, tagged by type.                                   *)

Str(s) == [t |-> "str", v |-> s]
Num(s) == [t |-> "num", v |-> s]
Lst(s) == [t |-> "list", v |-> s]
Obj(f) == [t |-> "obj", v |-> f]
Null == [t |-> "null", v |-> ""]
\* marks a key that the JSON object does not have
Absent == [t |-> "absent", v |-> ""]

NoValue == [t |-> "unset", v |-> ""]

El(kind, text) == [kind |-> kind, text |-> text]

Ok(els) == [raised |-> "", els |-> els]
Raise(e, els) == [raised |-> e, els |-> els]

\* the characters of a str, for the strings the model iterates over
Chars(s) ==
    CASE s = "none" -> <<"n", "o", "n", "e">>
      [] s = "" -> <<>>

RECURSIVE JoinStrings(_, _)
JoinStrings(sep, ss) ==
    IF Len(ss) = 0 THEN ""
    ELSE IF Len(ss) = 1 THEN ss[1]
    ELSE ss[1] \o sep \o JoinStrings(sep, Tail(ss))

\* sep.join(x): x is iterated; every item must be a str
Join(sep, x) ==
    CASE x.t = "list" ->
           IF \A i \in 1..Len(x.v) : x.v[i].t = "str"
           THEN [raised |-> "",
                 text |-> JoinStrings(sep, [i \in 1..Len(x.v) |-> x.v[i].v])]
           ELSE [raised |-> "TypeError: sequence item: expected str instance",
                 text |-> ""]
      [] x.t = "str" -> [raised |-> "", text |-> JoinStrings(sep, Chars(x.v))]
      [] OTHER -> [raised |-> "TypeError: can only join an iterable", text |-> ""]

RECURSIVE ReprItems(_)
ReprItems(xs) ==
    IF Len(xs) = 0 THEN ""
    ELSE LET h == IF xs[1].t = "str" THEN "'" \o xs[1].v \o "'"
                  ELSE IF xs[1].t = "null" THEN "None"
                  ELSE xs[1].v
         IN IF Len(xs) = 1 THEN h ELSE h \o ", " \o ReprItems(Tail(xs))

\* str(x), as an f-string or st.write formats a value
PyStr(x) ==
    CASE x.t = "str" -> x.v
      [] x.t = "num" -> x.v
      [] x.t = "null" -> "None"
      [] x.t = "list" -> "[" \o ReprItems(x.v) \o "]"

\* bool(x)
Truthy(x) ==
    CASE x.t = "str" -> x.v # ""
      [] x.t = "num" -> x.v # "0"
      [] x.t = "null" -> FALSE
      [] x.t = "list" -> Len(x.v) > 0

\* whether x can be a dict key
Hashable(x) == x.t \notin {"list", "dict"}

-----------------------------------------------------------------------------
(* display_results                                                         *)

severity_color ==
    [k \in {"Critical", "Major", "Minor", "None"} |->
        CASE k = "Critical" -> "severity-critical"
          [] k = "Major" -> "severity-major"
          [] k = "Minor" -> "severity-minor"
          [] k = "None" -> ""]

\* result.get(key): the default is dropped and a missing key yields None
GetNoDefault(r, key, default) ==
    IF key \in DOMAIN r.v THEN r.v[key] ELSE Null

\* result.get(key, default)
Get(r, key, default) ==
    IF key \in DOMAIN r.v THEN r.v[key] ELSE default

NotADict == "AttributeError: object has no attribute 'get'"

HeaderSection(name, date) ==
    Ok(<<El("markdown", "## Compliance Report"),
         El("markdown", "**Cafeteria:** " \o name),
         El("markdown", "**Analysis Date:** " \o date)>>)

status_icon(status) ==
    IF status = Str("Yes") THEN "check"
    ELSE IF status = Str("No") THEN "cross"
    ELSE "question"

StatusSection(r) ==
    IF r.t # "obj" THEN Raise(NotADict, <<>>)
    ELSE LET status == Get(r, "criteria_met", Str("Unknown"))
         IN Ok(<<El("markdown", "**Compliance Status:** " \o status_icon(status)
                                \o " " \o PyStr(status))>>)

\* the table with the class of "Major" repeated for "Minor"
color_class_Dup(severity) ==
    IF severity.t = "str" /\ severity.v \in DOMAIN severity_color
    THEN IF severity.v = "Minor" THEN severity_color["Major"]
         ELSE severity_color[severity.v]
    ELSE ""

\* severity_color.get(severity, "")
color_class(severity) ==
    IF severity.t = "str" /\ severity.v \in DOMAIN severity_color
    THEN severity_color[severity.v]
    ELSE ""

SeveritySection(r) ==
    IF r.t # "obj" THEN Raise(NotADict, <<>>)
    ELSE LET severity == Get(r, "severity", Str("Unknown"))
         IN IF ~Hashable(severity)
            THEN Raise("TypeError: unhashable type", <<>>)
            ELSE Ok(<<El("markdown", "**Severity Level:** <span class='"
                                     \o color_class(severity) \o "'>"
                                     \o PyStr(severity) \o "</span>")>>)

\* the list is formatted as it is, without the join
TagsSectionNoJoin(r) ==
    IF r.t # "obj" THEN Raise(NotADict, <<>>)
    ELSE Ok(<<El("markdown", "**Tags:** " \o PyStr(Get(r, "tags", Lst(<<>>))))>>)

TagsSection(r) ==
    IF r.t # "obj" THEN Raise(NotADict, <<>>)
    ELSE LET tags == Get(r, "tags", Lst(<<>>))
         IN IF tags.t = "list"
            THEN LET j == Join(", ", tags)
                 IN IF j.raised # "" THEN Raise(j.raised, <<>>)
                    ELSE Ok(<<El("markdown", "**Tags:** " \o j.text)>>)
            ELSE Ok(<<El("markdown", "**Tags:** " \o PyStr(tags))>>)

\* `if not issues or issues == ['none']`: an empty list counts as no issue
IssuesSectionEmptyIsNone(r) ==
    IF r.t # "obj" THEN Raise(NotADict, <<>>)
    ELSE LET issues == Get(r, "image_quality_issues", Lst(<<Str("none")>>))
         IN IF ~Truthy(issues) \/ issues = Lst(<<Str("none")>>)
            THEN Ok(<<El("success", "No quality issues detected")>>)
            ELSE LET j == Join(", ", issues)
                 IN IF j.raised # "" THEN Raise(j.raised, <<>>)
                    ELSE Ok(<<El("error", "Detected issues: " \o j.text)>>)

IssuesSection(r) ==
    IF r.t # "obj" THEN Raise(NotADict, <<>>)
    ELSE LET issues == Get(r, "image_quality_issues", Lst(<<Str("none")>>))
         IN IF issues = Lst(<<Str("none")>>)
            THEN Ok(<<El("success", "No quality issues detected")>>)
            ELSE LET j == Join(", ", issues)
                 IN IF j.raised # "" THEN Raise(j.raised, <<>>)
                    ELSE Ok(<<El("error", "Detected issues: " \o j.text)>>)

QualitySection(r) ==
    IF r.t # "obj" THEN Raise(NotADict, <<>>)
    ELSE Ok(<<El("info", "Quality Impact Assessment: "
                         \o PyStr(Get(r, "quality_assessment", Str(""))))>>)

DetailSection(r, q) ==
    IF r.t # "obj" THEN Raise(NotADict, <<>>)
    ELSE LET improvements == Get(r, "improvements", Str(""))
             head == <<El("markdown", "**Assessment Question:** " \o q),
                       El("markdown", "### Explanation"),
                       El("write", PyStr(Get(r, "explanation",
                                             Str("No explanation provided"))))>>
         IN IF Truthy(improvements)
            THEN Ok(head \o <<El("markdown", "### Improvement Suggestions"),
                              El("write", PyStr(improvements))>>)
            ELSE Ok(head \o <<El("success",
                                 "No improvements needed - all standards met")>>)

\* the statements of a function body in order: the elements rendered up to
\* the first statement that raises
RECURSIVE RunSections(_, _)
RunSections(parts, i) ==
    IF i > Len(parts) THEN Ok(<<>>)
    ELSE IF parts[i].raised # "" THEN parts[i]
    ELSE LET rest == RunSections(parts, i + 1)
         IN [raised |-> rest.raised, els |-> parts[i].els \o rest.els]

display_results(r, name, q, date) ==
    RunSections(<<HeaderSection(name, date), StatusSection(r),
                  SeveritySection(r), TagsSection(r), IssuesSection(r),
                  QualitySection(r), DetailSection(r, q)>>, 1)

-----------------------------------------------------------------------------
(* Inputs of a run: the widget values and what the environment returns.    *)

Texts(s) == {"", s}

\* "none": nothing uploaded.  "valid": a PNG/JPEG that opens, previews and
\* re-encodes.  "garbage": an accepted extension whose bytes are no image
\* (Image.open raises).  "truncated": a valid header with corrupt data
\* (opens, raises when st.image loads it).  "cmyk": a CMYK JPEG (opens and
\* previews, cannot be written as PNG).
Uploads == {"none", "valid", "garbage", "truncated", "cmyk"}

Undecodable == {"garbage", "truncated"}

CriteriaValues == {Absent, Str("Yes"), Str("No"), Str("Partial")}
SeverityValues ==
    {Absent, Str("Critical"), Str("Major"), Str("Minor"), Str("None"),
     Str("High"), Lst(<<Str("Major")>>)}
TagsValues ==
    {Absent, Lst(<<Str("a"), Str("b"), Str("c")>>), Str("a, b, c"),
     Lst(<<Str("a"), Num("1")>>)}
IssuesValues ==
    {Absent, Lst(<<Str("none")>>), Lst(<<>>),
     Lst(<<Str("blurry"), Str("underexposed")>>), Str("none"), Null}
ExplanationValues == {Absent, Str("Floor is clean.")}
ImprovementsValues == {Absent, Str(""), Str("Mop daily.")}
QualityValues == {Absent, Str("Clear image.")}

Fields ==
    {"criteria_met", "explanation", "improvements", "severity",
     "image_quality_issues", "quality_assessment", "tags"}

\* the JSON object that holds the keys of f whose value is not Absent
MakeObject(f) ==
    Obj([k \in {x \in Fields : f[x] # Absent} |-> f[k]])

JsonObjects ==
    {MakeObject(f) :
        f \in [criteria_met : CriteriaValues,
               explanation : ExplanationValues,
               improvements : ImprovementsValues,
               severity : SeverityValues,
               image_quality_issues : IssuesValues,
               quality_assessment : QualityValues,
               tags : TagsValues]}

\* message.content of the reply: None (a refusal), text that is no JSON,
\* the text of a JSON array, or the text of a JSON object
Malformed == [t |-> "malformed", v |-> "Sorry, I cannot help"]

Contents == {Null, Malformed, Lst(<<>>)} \cup JsonObjects

\* json.loads(content)
json_loads(content) ==
    CASE content.t = "null" ->
           [raised |-> "TypeError: the JSON object must be str, bytes or bytearray",
            value |-> NoValue]
      [] content.t = "malformed" ->
           [raised |-> "JSONDecodeError: Expecting value", value |-> NoValue]
      [] OTHER -> [raised |-> "", value |-> content]

\* datetime.datetime.now().strftime("%Y-%m-%d %H:%M:%S")
strftime(now) == "2025-01-01 00:00:0" \o ToString(now)

ValidationError == "Please fill all required fields and upload an image"
AnalysisFailed(e) == "Analysis failed: " \o e
Banner == "Analysis Complete!"

\* all([api_key, cafeteria_name, question, uploaded_image])
AllFilled ==
    api_key # "" /\ cafeteria_name # "" /\ question # "" /\ uploaded_image # "none"

-----------------------------------------------------------------------------
(* The script run.                                                         *)

Init ==
    /\ pc = "idle"
    /\ api_key = ""
    /\ cafeteria_name = ""
    /\ question = ""
    /\ uploaded_image = "none"
    /\ submitted = FALSE
    /\ image = "unbound"
    /\ response = NoValue
    /\ result = NoValue
    /\ analysis_date = ""
    /\ exc = ""
    /\ out = <<>>
    /\ calls = 0
    /\ trace = <<>>
    /\ prevFailed = FALSE

\* A rerun of the script: the page is cleared, the locals of main() are
\* fresh, and the form widgets return what the user entered.
Start ==
    /\ pc \in {"idle", "done"}
    /\ \E k \in Texts("sk-1"), n \in Texts("HB-12"), q \in Texts("Is the floor clean?"),
          u \in Uploads, s \in BOOLEAN :
          /\ api_key' = k
          /\ cafeteria_name' = n
          /\ question' = q
          /\ uploaded_image' = u
          /\ submitted' = s
          /\ trace' = IF s THEN <<"submit">> ELSE <<>>
    /\ prevFailed' = (exc # "")
    /\ image' = "unbound"
    /\ response' = NoValue
    /\ result' = NoValue
    /\ analysis_date' = ""
    /\ exc' = ""
    /\ out' = <<>>
    /\ calls' = 0
    /\ pc' = "form"

\* if uploaded_image: image = Image.open(...); st.image(image, ...)
\* Not inside any try: what these two lines raise ends the run, and
\* Streamlit shows the exception.
Preview ==
    /\ pc = "form"
    /\ \/ /\ uploaded_image = "none"
          /\ pc' = "validate"
          /\ UNCHANGED <<image, out>>
       \/ /\ uploaded_image \in Undecodable
          /\ image' = IF uploaded_image = "garbage" THEN "unbound" ELSE uploaded_image
          /\ out' = Append(out, El("exception",
                        IF uploaded_image = "garbage"
                        THEN "UnidentifiedImageError: cannot identify image file"
                        ELSE "OSError: image file is truncated"))
          /\ pc' = "done"
       \/ /\ uploaded_image \notin Undecodable \cup {"none"}
          /\ image' = uploaded_image
          /\ out' = Append(out, El("image", "Preview of Uploaded Image"))
          /\ pc' = "validate"
    /\ UNCHANGED <<api_key, cafeteria_name, question, uploaded_image, submitted,
                   response, result, analysis_date, exc, calls, trace, prevFailed>>

\* the validated submission goes to the API call with the image not encoded
ValidateSkipsEncode ==
    /\ pc = "validate"
    /\ \/ /\ ~submitted
          /\ pc' = "done"
          /\ UNCHANGED <<out, trace>>
       \/ /\ submitted
          /\ ~AllFilled
          /\ out' = Append(out, El("error", ValidationError))
          /\ trace' = Append(trace, "validate")
          /\ pc' = "done"
       \/ /\ submitted
          /\ AllFilled
          /\ trace' = Append(trace, "validate")
          /\ pc' = "call"
          /\ UNCHANGED out
    /\ UNCHANGED <<api_key, cafeteria_name, question, uploaded_image, submitted,
                   image, response, result, analysis_date, exc, calls, prevFailed>>

\* if submitted: if not all([...]): st.error(...); return
Validate ==
    /\ pc = "validate"
    /\ \/ /\ ~submitted
          /\ pc' = "done"
          /\ UNCHANGED <<out, trace>>
       \/ /\ submitted
          /\ ~AllFilled
          /\ out' = Append(out, El("error", ValidationError))
          /\ trace' = Append(trace, "validate")
          /\ pc' = "done"
       \/ /\ submitted
          /\ AllFilled
          /\ trace' = Append(trace, "validate")
          /\ pc' = "encode"
          /\ UNCHANGED out
    /\ UNCHANGED <<api_key, cafeteria_name, question, uploaded_image, submitted,
                   image, response, result, analysis_date, exc, calls, prevFailed>>

\* image.save(buffered, format="PNG"); base64.b64encode(...)
Encode ==
    /\ pc = "encode"
    /\ trace' = Append(trace, "encode")
    /\ \/ /\ image = "valid"
          /\ pc' = "call"
          /\ UNCHANGED exc
       \/ /\ image # "valid"
          /\ exc' = "OSError: cannot write mode CMYK as PNG"
          /\ pc' = "except"
    /\ UNCHANGED <<api_key, cafeteria_name, question, uploaded_image, submitted,
                   image, response, result, analysis_date, out, calls, prevFailed>>

\* client = OpenAI(api_key=api_key); client.chat.completions.create(...)
Call ==
    /\ pc = "call"
    /\ calls' = calls + 1
    /\ trace' = Append(trace, "call")
    /\ \/ /\ \E e \in {"AuthenticationError: Incorrect API key provided",
                       "APIConnectionError: Connection error."} : exc' = e
          /\ pc' = "except"
          /\ UNCHANGED response
       \/ /\ \E c \in Contents : response' = c
          /\ pc' = "parse"
          /\ UNCHANGED exc
    /\ UNCHANGED <<api_key, cafeteria_name, question, uploaded_image, submitted,
                   image, result, analysis_date, out, prevFailed>>

\* result = json.loads(response.choices[0].message.content)
Parse ==
    /\ pc = "parse"
    /\ trace' = Append(trace, "parse")
    /\ LET p == json_loads(response)
       IN \/ /\ p.raised # ""
             /\ exc' = p.raised
             /\ pc' = "except"
             /\ UNCHANGED result
          \/ /\ p.raised = ""
             /\ result' = p.value
             /\ pc' = "stamp"
             /\ UNCHANGED exc
    /\ UNCHANGED <<api_key, cafeteria_name, question, uploaded_image, submitted,
                   image, response, analysis_date, out, calls, prevFailed>>

\* analysis_date = datetime.datetime.now().strftime(...)
Timestamp ==
    /\ pc = "stamp"
    /\ \E now \in 1..MaxTime : analysis_date' = strftime(now)
    /\ trace' = Append(trace, "timestamp")
    /\ pc' = "render"
    /\ UNCHANGED <<api_key, cafeteria_name, question, uploaded_image, submitted,
                   image, response, result, exc, out, calls, prevFailed>>

\* st.success("Analysis Complete!"); display_results(...)
Display ==
    /\ pc = "render"
    /\ trace' = Append(trace, "render")
    /\ LET d == display_results(result, cafeteria_name, question, analysis_date)
       IN /\ out' = Append(out, El("success", Banner)) \o d.els
          /\ \/ /\ d.raised # ""
                /\ exc' = d.raised
                /\ pc' = "except"
             \/ /\ d.raised = ""
                /\ pc' = "done"
                /\ UNCHANGED exc
    /\ UNCHANGED <<api_key, cafeteria_name, question, uploaded_image, submitted,
                   image, response, result, analysis_date, calls, prevFailed>>

\* the handler reports the error and raises it again
HandlerReraise ==
    /\ pc = "except"
    /\ out' = out \o <<El("error", AnalysisFailed(exc)), El("exception", exc)>>
    /\ pc' = "done"
    /\ UNCHANGED <<api_key, cafeteria_name, question, uploaded_image, submitted,
                   image, response, result, analysis_date, exc, calls, trace,
                   prevFailed>>

\* the handler issues the call once more when the call or the parse failed
HandlerRetry ==
    /\ pc = "except"
    /\ IF calls = 1 /\ trace[Len(trace)] \in {"call", "parse"}
       THEN /\ pc' = "call"
            /\ exc' = ""
            /\ UNCHANGED out
       ELSE /\ out' = Append(out, El("error", AnalysisFailed(exc)))
            /\ pc' = "done"
            /\ UNCHANGED exc
    /\ UNCHANGED <<api_key, cafeteria_name, question, uploaded_image, submitted,
                   image, response, result, analysis_date, calls, trace,
                   prevFailed>>

\* except Exception as e: st.error(f"Analysis failed: {str(e)}")
Handler ==
    /\ pc = "except"
    /\ out' = Append(out, El("error", AnalysisFailed(exc)))
    /\ pc' = "done"
    /\ UNCHANGED <<api_key, cafeteria_name, question, uploaded_image, submitted,
                   image, response, result, analysis_date, exc, calls, trace,
                   prevFailed>>

Next ==
    \/ Start
    \/ Preview
    \/ Validate
    \/ Encode
    \/ Call
    \/ Parse
    \/ Timestamp
    \/ Display
    \/ Handler

Spec == Init /\ [][Next]_vars

-----------------------------------------------------------------------------
(* Vocabulary of the properties.                                           *)

Steps == <<"submit", "validate", "encode", "call", "parse", "timestamp", "render">>

IsPrefix(a, b) ==
    /\ Len(a) <= Len(b)
    /\ \A i \in 1..Len(a) : a[i] = b[i]

Shown(e) == \E i \in DOMAIN out : out[i] = e

LastStep == IF Len(trace) = 0 THEN "" ELSE trace[Len(trace)]

\* number of 'Analysis failed' messages on the page
FailedCount ==
    Cardinality({i \in DOMAIN out :
                    out[i].kind = "error" /\ exc # ""
                    /\ out[i].text = "Analysis failed: " \o exc})

ValidationShown == Shown(El("error", ValidationError))
BannerShown == Shown(El("success", "Analysis Complete!"))
\* the run was ended by an exception nothing caught
Crashed == \E i \in DOMAIN out : out[i].kind = "exception"
ReportStarted == Shown(El("markdown", "## Compliance Report"))
\* the last statement of display_results has rendered its element
ReportComplete ==
    /\ ReportStarted
    /\ \/ out[Len(out)] = El("success", "No improvements needed - all standards met")
       \/ out[Len(out) - 1] = El("markdown", "### Improvement Suggestions")

\* display_results has been called in this run and has returned or raised
Rendered == LastStep = "render" /\ pc \in {"except", "done"}

IsText(x) == x.t = "str"
IsTextList(x) == x.t = "list" /\ \A i \in 1..Len(x.v) : x.v[i].t = "str"

\* a JSON object whose fields, where present, have the types of the
\* AnalysisResult record: text, or a list of text (tags also as one text)
WellTyped(r) ==
    /\ r.t = "obj"
    /\ \A k \in DOMAIN r.v :
          CASE k = "tags" -> IsText(r.v[k]) \/ IsTextList(r.v[k])
            [] k = "image_quality_issues" -> IsTextList(r.v[k])
            [] OTHER -> IsText(r.v[k])

Has(k) == result.t = "obj" /\ k \in DOMAIN result.v
Field(k) == result.v[k]

-----------------------------------------------------------------------------
(* C1: a submission with one of the four inputs missing or empty shows the *)
(* validation error and returns, and issues no chat-completion call.       *)
C1_MissingInputRejected ==
    /\ (submitted /\ ~AllFilled) => calls = 0
    /\ (pc = "done" /\ submitted /\ ~AllFilled) =>
          /\ ValidationShown
          /\ ~Crashed

(* C2: for a validated submission, an exception raised by the API call or  *)
(* by the JSON parse gives exactly one 'Analysis failed' message and no    *)
(* report, the run ends normally, and the next run starts from a fresh     *)
(* state whatever the previous one did.                                    *)
C2_FailureIsOneMessage ==
    /\ (pc = "done" /\ exc # "" /\ LastStep \in {"call", "parse"}) =>
          /\ out = <<El("image", "Preview of Uploaded Image"),
                     El("error", "Analysis failed: " \o exc)>>
          /\ FailedCount = 1
          /\ ~BannerShown /\ ~ReportStarted /\ ~Crashed
    /\ (pc = "form" /\ prevFailed) =>
          /\ out = <<>> /\ calls = 0 /\ exc = ""
          /\ image = "unbound" /\ response = NoValue /\ result = NoValue
          /\ analysis_date = ""

\* a parse failure handled in a run that follows a failed run
C2_Witness ==
    /\ pc = "done" /\ prevFailed
    /\ exc # "" /\ LastStep = "parse"
    /\ FailedCount = 1

C5_TagsLine ==
    (Rendered /\ WellTyped(result) /\ Has("tags")) =>
       /\ Field("tags") = Lst(<<Str("a"), Str("b"), Str("c")>>) =>
             Shown(El("markdown", "**Tags:** a, b, c"))
       /\ Field("tags") = Str("a, b, c") =>
             Shown(El("markdown", "**Tags:** a, b, c"))
       /\ ~Shown(El("markdown", "**Tags:** ['a', 'b', 'c']"))

\* the list form of the tags has been rendered
C5_Witness ==
    /\ pc = "done" /\ Rendered
    /\ Has("tags") /\ Field("tags") = Lst(<<Str("a"), Str("b"), Str("c")>>)
    /\ Shown(El("markdown", "**Tags:** a, b, c"))

C7_DecodeFailureIsCaught ==
    /\ (submitted /\ AllFilled /\ uploaded_image \in Undecodable) => ~Crashed
    /\ (pc = "done" /\ submitted /\ AllFilled /\ uploaded_image \in Undecodable) =>
          /\ LastStep = "encode"
          /\ FailedCount = 1

(* C8: a run issues at most one chat-completion call: exactly one when     *)
(* validation passed and the image was encoded, none otherwise, also after *)
(* the call raised or its response failed to parse.                        *)
C8_AtMostOneCall ==
    /\ calls <= 1
    /\ pc = "done" =>
          calls = IF submitted /\ AllFilled /\ uploaded_image = "valid" THEN 1 ELSE 0
    /\ (calls = 1) => (IsPrefix(<<"submit", "validate", "encode", "call">>, trace)
                       /\ image = "valid")

\* a run whose only call raised has ended
C8_Witness ==
    /\ pc = "done" /\ calls = 1
    /\ exc # "" /\ LastStep = "call"
    /\ FailedCount = 1

(* C9: the steps of a submission happen only in the order submit,          *)
(* validate, encode, call, parse, timestamp, render: the call is issued    *)
(* only after validation passed and the image was encoded, the timestamp   *)
(* is taken only after the response was parsed, and the report is rendered *)
(* only after a successful parse and the timestamp.                        *)
C9_StepOrder ==
    /\ IsPrefix(trace, Steps)
    /\ (pc \in {"call", "parse"} \/ calls > 0) =>
          /\ submitted /\ AllFilled /\ image = "valid"
          /\ IsPrefix(<<"submit", "validate", "encode">>, trace)
    /\ (pc = "stamp" \/ analysis_date # "") =>
          /\ result # NoValue /\ response # NoValue /\ calls = 1
          /\ IsPrefix(<<"submit", "validate", "encode", "call", "parse">>, trace)
    /\ (pc = "render" \/ ReportStarted \/ BannerShown) =>
          /\ result # NoValue /\ analysis_date # ""
          /\ IsPrefix(<<"submit", "validate", "encode", "call", "parse", "timestamp">>,
                      trace)

\* a submission that went through all seven steps
C9_Witness ==
    /\ pc = "done" /\ trace = Steps
    /\ ReportComplete

(* C10: a submission that built its form ends in exactly one of: the       *)
(* validation error alone, the 'Analysis failed' message alone, or the     *)
(* success banner followed by the complete report; the banner and the      *)
(* 'Analysis failed' message are never both shown, and no report is left   *)
(* partially rendered, whatever JSON object the service returns.           *)
C10_OneOutcome ==
    (pc = "done" /\ submitted /\ ~Crashed /\ result.t \in {"unset", "obj"}) =>
       /\ \/ ValidationShown /\ FailedCount = 0 /\ ~BannerShown /\ ~ReportStarted
          \/ ~ValidationShown /\ FailedCount = 1 /\ ~BannerShown /\ ~ReportStarted
          \/ ~ValidationShown /\ FailedCount = 0 /\ BannerShown /\ ReportComplete
       /\ ~(BannerShown /\ FailedCount > 0)
       /\ ReportStarted => ReportComplete

====
